---- MODULE Spec2Model ----
(***************************************************************************)
(* Model of homework.py: the InfoMessage / Training / Running /            *)
(* SportsWalking / Swimming classes, read_package, main and the            *)
(* __main__ script.                                                        *)
(*                                                                         *)
(* Numbers.  Python ints and floats are modelled as exact rationals        *)
(* <<n, d>> in lowest terms with d > 0.  The binary rounding of IEEE       *)
(* doubles (relative error below 2^-52 per operation) is not modelled:     *)
(* 720 * 1.38 / 1000 is 621/625 here and 0.9935999999999999 in CPython.    *)
(* There is no signed zero: CPython prints -0.000 for 0 / -1, the model     *)
(* 0.000; this needs a negative field.  On every reading of CalcData the   *)
(* model's values agree with CPython's to 1e-9 and, signed zeros apart,    *)
(* the message texts agree character by character.                         *)
(* Exceptions are modelled as outcomes: every call yields a record         *)
(* [exc, val] where exc = "None" means a normal return of val.             *)
(***************************************************************************)
EXTENDS Integers, Sequences, FiniteSets, TLC

VARIABLES
    objs,     \* the Training objects constructed so far, in creation order
    ret,      \* the outcome of the most recent call: [op, arg, exc, val]
    infos,    \* the InfoMessages returned so far: [obj, info]
    stdout,   \* the lines printed by main()
    pc        \* 0: module imported; 1..3: __main__ loop index; 4: loop
              \* done; -1: script ended by an exception

vars == <<objs, ret, infos, stdout, pc>>

----------------------------------------------------------------------------
(* Rational arithmetic *)

Abs(n) == IF n < 0 THEN -n ELSE n

RECURSIVE GCD(_, _)
GCD(a, b) == IF b = 0 THEN a ELSE GCD(b, a % b)

\* n/d divided through by g, with the sign moved to the numerator
Reduce(n, d, g) ==
    IF d < 0 THEN <<(-n) \div g, (-d) \div g>> ELSE <<n \div g, d \div g>>

\* n/d in lowest terms, d # 0
Rat(n, d) == Reduce(n, d, GCD(Abs(n), Abs(d)))

Num(n) == <<n, 1>>

IsZero(a) == a[1] = 0
Add(a, b) == Rat(a[1] * b[2] + b[1] * a[2], a[2] * b[2])
Sub(a, b) == Rat(a[1] * b[2] - b[1] * a[2], a[2] * b[2])
\* cross-reduce first so that the products stay small
Times(x, y) == Rat(x[1] * y[1], x[2] * y[2])
Mul(a, b) == Times(Rat(a[1], b[2]), Rat(b[1], a[2]))
\* a / b, b # 0 (true division)
Div(a, b) == Mul(a, Rat(b[2], b[1]))
\* a // b, b # 0: the floor of the quotient, returned as a number
Floor(q) == Num(q[1] \div q[2])
FloorDiv(a, b) == Floor(Div(a, b))
\* a ** k for an integer k >= 0
RECURSIVE Pow(_, _)
Pow(a, k) == IF k = 0 THEN Num(1) ELSE Mul(a, Pow(a, k - 1))

----------------------------------------------------------------------------
(* Outcomes of calls *)

None == <<>>
Ok(v) == [exc |-> "None", val |-> v]
Raise(e) == [exc |-> e, val |-> None]

----------------------------------------------------------------------------
(* Class constants *)

M_IN_KM == 1000
MIN_IN_HOUR == 60
Training_LEN_STEP == Rat(65, 100)
Swimming_LEN_STEP == Rat(138, 100)
Running_SPEND_CALORIES_FACTOR == 18
Running_SPEND_CALORIES_FACTOR_1 == 20
SportsWalking_SPEND_CALORIES_FACTOR == Rat(35, 1000)
SportsWalking_SPEND_CALORIES_FACTOR_1 == 2
SportsWalking_SPEND_CALORIES_FACTOR_2 == Rat(29, 1000)
Swimming_SPEND_CALORIES_FACTOR == Rat(11, 10)
Swimming_SPEND_CALORIES_FACTOR_1 == 2

Classes == {"Training", "Running", "SportsWalking", "Swimming"}

\* dataclass fields in declaration order, base fields first
Training_fields == <<"action", "duration", "weight">>
Fields(cls) ==
    CASE cls = "SportsWalking" -> Training_fields \o <<"height">>
      [] cls = "Swimming" -> Training_fields \o <<"length_pool", "count_pool">>
      [] OTHER -> Training_fields

\* mutant of New: surplus arguments are dropped instead of rejected
New_IgnoringSurplus(cls, data) ==
    IF Len(data) < Len(Fields(cls))
    THEN Raise("TypeError")
    ELSE Ok([cls |-> cls] @@
            [f \in {Fields(cls)[i] : i \in DOMAIN Fields(cls)} |->
                data[CHOOSE i \in DOMAIN Fields(cls) : Fields(cls)[i] = f]])

\* the generated __init__(self, *fields): binds the arguments positionally,
\* raises TypeError when their number differs from the number of fields
New(cls, data) ==
    LET fs == Fields(cls) IN
    IF Len(data) # Len(fs)
    THEN Raise("TypeError")
    ELSE Ok([cls |-> cls] @@
            [f \in {fs[i] : i \in DOMAIN fs} |->
                data[CHOOSE i \in DOMAIN fs : fs[i] = f]])

\* mutant of LEN_STEP: the override of Swimming is not looked up
LEN_STEP_Base(t) == Training_LEN_STEP

\* class attribute lookup self.LEN_STEP
LEN_STEP(t) ==
    IF t.cls = "Swimming" THEN Swimming_LEN_STEP ELSE Training_LEN_STEP

----------------------------------------------------------------------------
(* Methods *)

\* mutant of get_distance: "-" typed for "*"
get_distance_Minus(t) ==
    Div(Sub(t.action, LEN_STEP(t)), Num(M_IN_KM))

get_distance(t) ==
    Div(Mul(t.action, LEN_STEP(t)), Num(M_IN_KM))

\* mutant of Training_get_mean_speed: "*" typed for "/"
Training_get_mean_speed_Times(t) ==
    IF IsZero(t.duration)
    THEN Raise("ZeroDivisionError")
    ELSE Ok(Mul(get_distance(t), t.duration))

Training_get_mean_speed(t) ==
    IF IsZero(t.duration)
    THEN Raise("ZeroDivisionError")
    ELSE Ok(Div(get_distance(t), t.duration))

Swimming_get_mean_speed(t) ==
    IF IsZero(t.duration)
    THEN Raise("ZeroDivisionError")
    ELSE Ok(Div(Div(Mul(t.length_pool, t.count_pool), Num(M_IN_KM)),
                t.duration))

\* method resolution for self.get_mean_speed()
get_mean_speed(t) ==
    IF t.cls = "Swimming"
    THEN Swimming_get_mean_speed(t)
    ELSE Training_get_mean_speed(t)

Training_get_spent_calories(t) == Raise("NotImplementedError")

\* mutant of Running_get_spent_calories: the minutes factor is left out
Running_get_spent_calories_Hours(t) ==
    LET s == get_mean_speed(t) IN
    IF s.exc # "None" THEN s ELSE
        Ok(Mul(Div(Mul(Sub(Mul(Num(Running_SPEND_CALORIES_FACTOR), s.val),
                           Num(Running_SPEND_CALORIES_FACTOR_1)),
                       t.weight),
                   Num(M_IN_KM)),
               t.duration))

Running_get_spent_calories(t) ==
    LET s == get_mean_speed(t) IN
    IF s.exc # "None" THEN s ELSE
        Ok(Mul(Div(Mul(Sub(Mul(Num(Running_SPEND_CALORIES_FACTOR), s.val),
                           Num(Running_SPEND_CALORIES_FACTOR_1)),
                       t.weight),
                   Num(M_IN_KM)),
               Mul(t.duration, Num(MIN_IN_HOUR))))

\* mutant of SportsWalking_get_spent_calories: floor-divide, then square
SportsWalking_get_spent_calories_FloorFirst(t) ==
    LET s == get_mean_speed(t) IN
    IF s.exc # "None" THEN s ELSE
        IF IsZero(t.height) THEN Raise("ZeroDivisionError")
        ELSE Ok(Mul(Mul(Add(Mul(SportsWalking_SPEND_CALORIES_FACTOR, t.weight),
                            Mul(Mul(Pow(FloorDiv(s.val, t.height),
                                        SportsWalking_SPEND_CALORIES_FACTOR_1),
                                    SportsWalking_SPEND_CALORIES_FACTOR_2),
                                t.weight)),
                        t.duration),
                    Num(MIN_IN_HOUR)))

SportsWalking_get_spent_calories(t) ==
    LET s == get_mean_speed(t) IN
    IF s.exc # "None" THEN s ELSE
        IF IsZero(t.height) THEN Raise("ZeroDivisionError")
        ELSE Ok(Mul(Mul(Add(Mul(SportsWalking_SPEND_CALORIES_FACTOR, t.weight),
                            Mul(Mul(FloorDiv(Pow(s.val,
                                        SportsWalking_SPEND_CALORIES_FACTOR_1),
                                             t.height),
                                    SportsWalking_SPEND_CALORIES_FACTOR_2),
                                t.weight)),
                        t.duration),
                    Num(MIN_IN_HOUR)))

\* mutant of Swimming_get_spent_calories: "-" typed for "+"
Swimming_get_spent_calories_Minus(t) ==
    LET s == get_mean_speed(t) IN
    IF s.exc # "None" THEN s ELSE
        Ok(Mul(Mul(Sub(s.val, Swimming_SPEND_CALORIES_FACTOR),
                   Num(Swimming_SPEND_CALORIES_FACTOR_1)),
               t.weight))

Swimming_get_spent_calories(t) ==
    LET s == get_mean_speed(t) IN
    IF s.exc # "None" THEN s ELSE
        Ok(Mul(Mul(Add(s.val, Swimming_SPEND_CALORIES_FACTOR),
                   Num(Swimming_SPEND_CALORIES_FACTOR_1)),
               t.weight))

\* method resolution for self.get_spent_calories()
get_spent_calories(t) ==
    CASE t.cls = "Running" -> Running_get_spent_calories(t)
      [] t.cls = "SportsWalking" -> SportsWalking_get_spent_calories(t)
      [] t.cls = "Swimming" -> Swimming_get_spent_calories(t)
      [] OTHER -> Training_get_spent_calories(t)

InfoMessage(training_type, duration, distance, speed, calories) ==
    [training_type |-> training_type, duration |-> duration,
     distance |-> distance, speed |-> speed, calories |-> calories]

\* mutant of show_training_info: the distance is added to a running total
\* shared by all calls instead of being computed afresh
show_training_info_RunningTotal(t) ==
    LET s == get_mean_speed(t)
        c == get_spent_calories(t)
    IN  IF s.exc # "None" THEN s
        ELSE IF c.exc # "None" THEN c
        ELSE Ok(InfoMessage(t.cls, t.duration,
                            IF infos = <<>> THEN get_distance(t)
                            ELSE Add(infos[Len(infos)].info.distance,
                                     get_distance(t)),
                            s.val, c.val))

\* the arguments are evaluated left to right; the first exception propagates
show_training_info(t) ==
    LET s == get_mean_speed(t)
        c == get_spent_calories(t)
    IN  IF s.exc # "None" THEN s
        ELSE IF c.exc # "None" THEN c
        ELSE Ok(InfoMessage(t.cls, t.duration, get_distance(t), s.val, c.val))

\* y = n/d (n >= 0, d > 0) rounded to an integer, halves to the even one
Nearest(fl, rem, d) ==
    IF 2 * rem > d \/ (2 * rem = d /\ fl % 2 = 1) THEN fl + 1 ELSE fl
RoundHalfEven(y) == Nearest(y[1] \div y[2], y[1] % y[2], y[2])

\* the digits of q thousandths
Fixed3(negative, q) ==
    (IF negative THEN "-" ELSE "")
    \o ToString(q \div 1000) \o "."
    \o (IF q % 1000 < 10 THEN "00" ELSE IF q % 1000 < 100 THEN "0" ELSE "")
    \o ToString(q % 1000)

\* '{:.3f}'.format(x): fixed point, three decimals, round half to even
Format3f(x) ==
    Fixed3(x[1] < 0, RoundHalfEven(Mul(<<Abs(x[1]), x[2]>>, Num(1000))))

\* MESSAGE_TEXT.format(**asdict(self)); the Cyrillic literals of the
\* template are transliterated
get_message(info) ==
    "Tip trenirovki: " \o info.training_type
    \o "; Dlitelnost: " \o Format3f(info.duration)
    \o " ch.; Distanciya: " \o Format3f(info.distance)
    \o " km; Sr. skorost: " \o Format3f(info.speed)
    \o " km/ch; Potracheno kkal: " \o Format3f(info.calories) \o "."

types_training ==
    [SWM |-> "Swimming", RUN |-> "Running", WLK |-> "SportsWalking"]

\* mutant of read_package: an unknown code falls back to Running
read_package_Defaulting(workout_type, data) ==
    IF workout_type \notin DOMAIN types_training
    THEN New("Running", data)
    ELSE New(types_training[workout_type], data)

read_package(workout_type, data) ==
    IF workout_type \notin DOMAIN types_training
    THEN Raise("ValueError")
    ELSE New(types_training[workout_type], data)

\* main(training): the text printed, or the exception that escapes
main(training) ==
    LET info == show_training_info(training) IN
    IF info.exc # "None" THEN info ELSE Ok(get_message(info.val))

packages ==
    << <<"SWM", <<Num(720), Num(1), Num(80), Num(25), Num(40)>> >>,
       <<"RUN", <<Num(15000), Num(1), Num(75)>> >>,
       <<"WLK", <<Num(9000), Num(1), Num(75), Num(180)>> >> >>

----------------------------------------------------------------------------
(* Bounds and input domains *)

MaxObjs == 2    \* objects an importing caller constructs
MaxInfos == 2   \* InfoMessages an importing caller keeps

WorkoutTypes == {"SWM", "RUN", "WLK", "XYZ"}

\* argument lists: the prefixes of length n \in Lens of <<a, d, w, x4, x5, 1>>
DataOf(As, Ds, Ws, X4s, X5s, Lens) ==
    {SubSeq(<<Num(a), d, Num(w), Num(x4), Num(x5), Num(1)>>, 1, n) :
        a \in As, d \in Ds, w \in Ws, x4 \in X4s, x5 \in X5s, n \in Lens}

\* the readings of SpecCalc: the three packages of the script are among them
CalcData ==
    DataOf({-720, 0, 720, 9000, 15000},
           {Num(-1), Num(0), Rat(1, 2), Num(1), Num(2)},
           {-80, 75, 80}, {0, 25, 180}, {-40, 0, 40}, 2..6)

\* the readings of Spec
HeapData == DataOf({15000}, {Num(0), Num(1)}, {75}, {25}, {40}, 3..5)

----------------------------------------------------------------------------
(* State machine *)

NoCall == [op |-> "none", arg |-> None, exc |-> "None", val |-> None]

Init ==
    /\ objs = <<>>
    /\ ret = NoCall
    /\ infos = <<>>
    /\ stdout = <<>>
    /\ pc \in {0, 1}

\* training = read_package(workout_type, data), called by an importer
ReadPackage(workout_type, data) ==
    /\ pc = 0
    /\ Len(objs) < MaxObjs
    /\ LET r == read_package(workout_type, data) IN
        /\ objs' = IF r.exc = "None" THEN Append(objs, r.val) ELSE objs
        /\ ret' = [op |-> "read_package", arg |-> <<workout_type, data>>,
                   exc |-> r.exc,
                   val |-> IF r.exc = "None" THEN Len(objs) + 1 ELSE None]
    /\ UNCHANGED <<infos, stdout, pc>>

\* training = cls(*data), called by an importer
Construct(cls, data) ==
    /\ pc = 0
    /\ Len(objs) < MaxObjs
    /\ LET r == New(cls, data) IN
        /\ objs' = IF r.exc = "None" THEN Append(objs, r.val) ELSE objs
        /\ ret' = [op |-> "__init__", arg |-> <<cls, data>>,
                   exc |-> r.exc,
                   val |-> IF r.exc = "None" THEN Len(objs) + 1 ELSE None]
    /\ UNCHANGED <<infos, stdout, pc>>

\* objs[i].get_distance()
GetDistance(i) ==
    /\ pc = 0
    /\ ret' = [op |-> "get_distance", arg |-> i,
               exc |-> "None", val |-> get_distance(objs[i])]
    /\ UNCHANGED <<objs, infos, stdout, pc>>

\* objs[i].get_mean_speed()
GetMeanSpeed(i) ==
    /\ pc = 0
    /\ LET r == get_mean_speed(objs[i]) IN
        ret' = [op |-> "get_mean_speed", arg |-> i,
                exc |-> r.exc, val |-> r.val]
    /\ UNCHANGED <<objs, infos, stdout, pc>>

\* objs[i].get_spent_calories()
GetSpentCalories(i) ==
    /\ pc = 0
    /\ LET r == get_spent_calories(objs[i]) IN
        ret' = [op |-> "get_spent_calories", arg |-> i,
                exc |-> r.exc, val |-> r.val]
    /\ UNCHANGED <<objs, infos, stdout, pc>>

\* info = objs[i].show_training_info(); the caller keeps info
ShowTrainingInfo(i) ==
    /\ pc = 0
    /\ Len(infos) < MaxInfos
    /\ LET r == show_training_info(objs[i]) IN
        /\ ret' = [op |-> "show_training_info", arg |-> i,
                   exc |-> r.exc, val |-> r.val]
        /\ infos' = IF r.exc = "None"
                    THEN Append(infos, [obj |-> i, info |-> r.val])
                    ELSE infos
    /\ UNCHANGED <<objs, stdout, pc>>

\* infos[k].info.get_message()
GetMessage(k) ==
    /\ pc = 0
    /\ ret' = [op |-> "get_message", arg |-> k,
               exc |-> "None", val |-> get_message(infos[k].info)]
    /\ UNCHANGED <<objs, infos, stdout, pc>>

\* main(objs[i]), called by an importer
Main(i) ==
    /\ pc = 0
    /\ LET r == main(objs[i]) IN
        /\ ret' = [op |-> "main", arg |-> i, exc |-> r.exc, val |-> None]
        /\ stdout' = IF r.exc = "None" THEN Append(stdout, r.val) ELSE stdout
    /\ UNCHANGED <<objs, infos, pc>>

\* one iteration of the loop under if __name__ == '__main__': an uncaught
\* exception ends the script (pc = -1)
Script ==
    /\ pc \in DOMAIN packages
    /\ LET t == read_package(packages[pc][1], packages[pc][2])
           r == IF t.exc = "None" THEN main(t.val) ELSE t
       IN
        /\ objs' = IF t.exc = "None" THEN Append(objs, t.val) ELSE objs
        /\ stdout' = IF r.exc = "None" THEN Append(stdout, r.val) ELSE stdout
        /\ ret' = [op |-> IF t.exc = "None" THEN "main" ELSE "read_package",
                   arg |-> pc, exc |-> r.exc, val |-> None]
        /\ pc' = IF r.exc = "None" THEN pc + 1 ELSE -1
    /\ UNCHANGED infos

Next ==
    \/ \E w \in WorkoutTypes, d \in HeapData : ReadPackage(w, d)
    \/ \E d \in HeapData : Construct("Training", d)
    \/ \E i \in DOMAIN objs : GetDistance(i)
    \/ \E i \in DOMAIN objs : GetMeanSpeed(i)
    \/ \E i \in DOMAIN objs : GetSpentCalories(i)
    \/ \E i \in DOMAIN objs : ShowTrainingInfo(i)
    \/ \E k \in DOMAIN infos : GetMessage(k)
    \/ Script

Spec == Init /\ [][Next]_vars

\* One reading, one call: a calculator is built from any reading of CalcData
\* and one method is applied to it right after its construction.
InitCalc == Init /\ pc = 0

Fresh == ret.op \in {"read_package", "__init__"} /\ ret.exc = "None"

NextCalc ==
    \/ ret.op = "none" /\ \E w \in WorkoutTypes, d \in CalcData : ReadPackage(w, d)
    \/ ret.op = "none" /\ \E c \in Classes, d \in CalcData : Construct(c, d)
    \/ Fresh /\ GetDistance(ret.val)
    \/ Fresh /\ GetMeanSpeed(ret.val)
    \/ Fresh /\ GetSpentCalories(ret.val)
    \/ Fresh /\ ShowTrainingInfo(ret.val)
    \/ Fresh /\ Main(ret.val)
    \/ ret.op = "show_training_info" /\ ret.exc = "None" /\ GetMessage(Len(infos))

SpecCalc == InitCalc /\ [][NextCalc]_vars

----------------------------------------------------------------------------
(* Properties.  Under SpecCalc the state holds at most one object, and     *)
(* after a method call ret.arg is its index.                               *)

Variants == {"Running", "SportsWalking", "Swimming"}
Self == objs[ret.arg]
Returned(op) == ret.op = op /\ ret.exc = "None"
Positive(x) == x[1] > 0
NonNegative(x) == x[1] >= 0

\* a reading that satisfies the documented ranges of its fields
ValidReading(t) ==
    /\ Positive(t.duration)
    /\ Positive(t.weight)
    /\ t.cls = "SportsWalking" => Positive(t.height)
    /\ t.cls = "Swimming" =>
        Positive(t.length_pool) /\ NonNegative(t.count_pool)

KnownCodes == {"SWM", "RUN", "WLK"}
VariantOf(code) ==
    CASE code = "SWM" -> "Swimming"
      [] code = "RUN" -> "Running"
      [] code = "WLK" -> "SportsWalking"
FieldCount(code) ==
    CASE code = "SWM" -> 5
      [] code = "RUN" -> 3
      [] code = "WLK" -> 4

\* C1: read_package returns a calculator of the matching variant for each
\* of the codes SWM, RUN, WLK given a correctly sized argument list, and
\* raises ValueError, constructing nothing, for every other code; the label
\* of a summary is the variant name of the calculator it was made from.
C1_DispatchTotalOrRejects ==
    /\ ret.op = "read_package" =>
        /\ ret.arg[1] \notin KnownCodes =>
            ret.exc = "ValueError" /\ objs = <<>>
        /\ (ret.arg[1] \in KnownCodes
            /\ Len(ret.arg[2]) = FieldCount(ret.arg[1])) =>
            /\ ret.exc = "None"
            /\ objs[ret.val].cls = VariantOf(ret.arg[1])
    /\ \A k \in DOMAIN infos :
        infos[k].info.training_type = objs[infos[k].obj].cls

C1_Witness ==
    /\ ret.op = "read_package"
    /\ ret.arg = <<"XYZ", <<Num(15000), Num(1), Num(75)>> >>
    /\ ret.exc = "ValueError"
    /\ objs = <<>>

\* C8: for a known code, an argument list that is too short or too long
\* makes read_package raise the constructor's TypeError and build nothing;
\* a list of the right length is bound positionally: action, duration,
\* weight, then height (WLK) or length_pool, count_pool (SWM).
C8_ArityAndPositionalBinding ==
    (ret.op = "read_package" /\ ret.arg[1] \in KnownCodes) =>
        IF Len(ret.arg[2]) # FieldCount(ret.arg[1])
        THEN ret.exc = "TypeError" /\ objs = <<>>
        ELSE /\ ret.exc = "None"
             /\ objs[ret.val].action = ret.arg[2][1]
             /\ objs[ret.val].duration = ret.arg[2][2]
             /\ objs[ret.val].weight = ret.arg[2][3]
             /\ ret.arg[1] = "WLK" => objs[ret.val].height = ret.arg[2][4]
             /\ ret.arg[1] = "SWM" =>
                 /\ objs[ret.val].length_pool = ret.arg[2][4]
                 /\ objs[ret.val].count_pool = ret.arg[2][5]
             /\ DOMAIN objs[ret.val] =
                 {"cls", "action", "duration", "weight"}
                 \cup (IF ret.arg[1] = "WLK" THEN {"height"} ELSE {})
                 \cup (IF ret.arg[1] = "SWM"
                       THEN {"length_pool", "count_pool"} ELSE {})

C8_Witness ==
    /\ ret.op = "read_package"
    /\ ret.arg[1] = "RUN"
    /\ Len(ret.arg[2]) = 4
    /\ ret.exc = "TypeError"
    /\ objs = <<>>

\* C2 (as claimed): a reading with duration 0, or a walking reading with
\* height 0, is rejected at construction, so no such object exists and no
\* call ever ends in ZeroDivisionError.
C2_ZeroDivisorsRejectedAtConstruction ==
    /\ \A i \in DOMAIN objs :
        /\ ~IsZero(objs[i].duration)
        /\ objs[i].cls = "SportsWalking" => ~IsZero(objs[i].height)
    /\ ret.exc # "ZeroDivisionError"

RunReference ==
    [cls |-> "Running", action |-> Num(15000), duration |-> Num(1),
     weight |-> Num(75)]
WalkReference ==
    [cls |-> "SportsWalking", action |-> Num(9000), duration |-> Num(1),
     weight |-> Num(75), height |-> Num(180)]
SwimReference ==
    [cls |-> "Swimming", action |-> Num(720), duration |-> Num(1),
     weight |-> Num(80), length_pool |-> Num(25), count_pool |-> Num(40)]

\* C3 (as claimed): the summary of ("RUN", [15000, 1, 75]) has distance
\* 9.75, mean speed 9.75 and calories 744.75.
C3_RunReferenceAsClaimed ==
    (Returned("show_training_info") /\ Self = RunReference) =>
        /\ ret.val.distance = Rat(975, 100)
        /\ ret.val.speed = Rat(975, 100)
        /\ ret.val.calories = Rat(74475, 100)

\* C3 (amended): the summary of ("RUN", [15000, 1, 75]) has distance 9.75,
\* mean speed 9.75 and calories 699.75.
C3_RunReference ==
    (Returned("show_training_info") /\ Self = RunReference) =>
        /\ ret.val.distance = Rat(975, 100)
        /\ ret.val.speed = Rat(975, 100)
        /\ ret.val.calories = Rat(69975, 100)

C3_Witness ==
    /\ Returned("show_training_info")
    /\ Self = RunReference
    /\ ret.val.training_type = "Running"

\* the land distance and speed written out from the fields:
\* action * 0.65 / 1000 and that over duration
LandDistance(t) == Rat(t.action[1] * 13, t.action[2] * 20000)
LandSpeed(t) ==
    Rat(t.action[1] * 13 * t.duration[2],
        t.action[2] * 20000 * t.duration[1])

\* C4: for a Running object with duration > 0, get_distance returns
\* action * 0.65 / 1000, get_mean_speed returns that over duration, and
\* get_spent_calories returns
\* (18 * speed - 20) * weight / 1000 * (duration * 60).
C4_RunningFormulas ==
    (ret.op \in {"get_distance", "get_mean_speed", "get_spent_calories"}
     /\ Self.cls = "Running" /\ Positive(Self.duration)) =>
        /\ ret.exc = "None"
        /\ ret.op = "get_distance" => ret.val = LandDistance(Self)
        /\ ret.op = "get_mean_speed" => ret.val = LandSpeed(Self)
        /\ ret.op = "get_spent_calories" =>
            ret.val = Mul(Div(Mul(Sub(Mul(Num(18), LandSpeed(Self)), Num(20)),
                                  Self.weight),
                              Num(1000)),
                          Mul(Self.duration, Num(60)))

C4_Witness ==
    /\ Returned("get_spent_calories")
    /\ Self.cls = "Running"
    /\ Self.duration = Num(2)
    /\ Self.action = Num(9000)
    /\ Self.weight = Num(80)

\* the floor term of the walking formula: speed squared, then floor-divided
WalkFloorTerm(t) ==
    Floor(Div(Mul(LandSpeed(t), LandSpeed(t)), t.height))

\* C5: for a SportsWalking object with duration > 0 and height > 0,
\* get_spent_calories returns
\* (0.035 * weight + floor(speed^2 / height) * 0.029 * weight)
\* * duration * 60; for ("WLK", [9000, 1, 75, 180]) the floor term is 0 and
\* the summary has distance 5.85, speed 5.85, calories 157.5.
C5_WalkingFormula ==
    /\ (ret.op = "get_spent_calories" /\ Self.cls = "SportsWalking"
        /\ Positive(Self.duration) /\ Positive(Self.height)) =>
        /\ ret.exc = "None"
        /\ ret.val =
            Mul(Mul(Add(Mul(Rat(35, 1000), Self.weight),
                        Mul(Mul(WalkFloorTerm(Self), Rat(29, 1000)),
                            Self.weight)),
                    Self.duration),
                Num(60))
    /\ (ret.op = "show_training_info" /\ Self = WalkReference) =>
        /\ ret.exc = "None"
        /\ WalkFloorTerm(Self) = Num(0)
        /\ ret.val.distance = Rat(585, 100)
        /\ ret.val.speed = Rat(585, 100)
        /\ ret.val.calories = Rat(1575, 10)

\* a walking reading whose floor term is 3 (9.75^2 // 25)
C5_Witness ==
    /\ Returned("get_spent_calories")
    /\ Self.cls = "SportsWalking"
    /\ Self.action = Num(15000) /\ Self.duration = Num(1)
    /\ Self.weight = Num(75) /\ Self.height = Num(25)
    /\ WalkFloorTerm(Self) = Num(3)
    /\ ret.val = Num(549)

PoolSpeed(t) ==
    Div(Div(Mul(t.length_pool, t.count_pool), Num(1000)), t.duration)

\* C6: for a Swimming object with duration > 0, get_distance returns
\* action * 1.38 / 1000, get_mean_speed returns
\* length_pool * count_pool / 1000 / duration, and get_spent_calories
\* returns (speed + 1.1) * 2 * weight; ("SWM", [720, 1, 80, 25, 40]) gives
\* distance 0.9936, speed 1.0, calories 336.0.
C6_SwimmingFormulas ==
    /\ (ret.op \in {"get_distance", "get_mean_speed", "get_spent_calories"}
        /\ Self.cls = "Swimming" /\ Positive(Self.duration)) =>
        /\ ret.exc = "None"
        /\ ret.op = "get_distance" =>
            ret.val = Rat(Self.action[1] * 138, Self.action[2] * 100000)
        /\ ret.op = "get_mean_speed" => ret.val = PoolSpeed(Self)
        /\ ret.op = "get_spent_calories" =>
            ret.val = Mul(Mul(Add(PoolSpeed(Self), Rat(11, 10)), Num(2)),
                          Self.weight)
    /\ (ret.op = "show_training_info" /\ Self = SwimReference) =>
        /\ ret.exc = "None"
        /\ ret.val.distance = Rat(9936, 10000)
        /\ ret.val.speed = Num(1)
        /\ ret.val.calories = Num(336)

C6_Witness ==
    /\ Returned("show_training_info")
    /\ Self = SwimReference
    /\ ret.val.training_type = "Swimming"

\* C7: for a valid reading with action >= 0 of any of the three variants,
\* get_distance and get_mean_speed return values >= 0, and the distance and
\* speed of the summary are >= 0.
C7_DistanceAndSpeedNonNegative ==
    (ret.op \in {"get_distance", "get_mean_speed", "show_training_info"}
     /\ Self.cls \in Variants /\ ValidReading(Self)
     /\ NonNegative(Self.action)) =>
        /\ ret.exc = "None"
        /\ ret.op \in {"get_distance", "get_mean_speed"} =>
            NonNegative(ret.val)
        /\ ret.op = "show_training_info" =>
            NonNegative(ret.val.distance) /\ NonNegative(ret.val.speed)

C7_Witness ==
    /\ Returned("show_training_info")
    /\ Self.cls = "SportsWalking" /\ ValidReading(Self)
    /\ Positive(Self.action)
    /\ Positive(ret.val.distance) /\ Positive(ret.val.speed)

\* C10 (as claimed): for a valid reading with action >= 0 of any of the
\* three variants, get_spent_calories and the calories of the summary
\* are >= 0.
C10_CaloriesNonNegativeAsClaimed ==
    (ret.op \in {"get_spent_calories", "show_training_info"}
     /\ Self.cls \in Variants /\ ValidReading(Self)
     /\ NonNegative(Self.action)) =>
        /\ ret.exc = "None"
        /\ ret.op = "get_spent_calories" => NonNegative(ret.val)
        /\ ret.op = "show_training_info" => NonNegative(ret.val.calories)

\* the calories returned by the call that ret records
CaloriesReturned ==
    IF ret.op = "get_spent_calories" THEN ret.val ELSE ret.val.calories

\* C10 (amended): for a valid reading with action >= 0, the calories are
\* >= 0 for SportsWalking and Swimming; for Running they are >= 0 exactly
\* when 18 * mean speed >= 20, and negative below that speed.
C10_CaloriesNonNegative ==
    (ret.op \in {"get_spent_calories", "show_training_info"}
     /\ Self.cls \in Variants /\ ValidReading(Self)
     /\ NonNegative(Self.action)) =>
        /\ ret.exc = "None"
        /\ Self.cls \in {"SportsWalking", "Swimming"} =>
            NonNegative(CaloriesReturned)
        /\ Self.cls = "Running" =>
            (NonNegative(CaloriesReturned) <=>
                NonNegative(Sub(Mul(Num(18), LandSpeed(Self)), Num(20))))

\* a valid running reading whose calories are negative: action 0 gives -90
C10_Witness ==
    /\ Returned("get_spent_calories")
    /\ Self = [cls |-> "Running", action |-> Num(0), duration |-> Num(1),
               weight |-> Num(75)]
    /\ ret.val = Num(-90)

\* what C9 requires of every step: objects and returned summaries stay as
\* they are, and a summary the step returns equals every earlier summary of
\* an equal-valued calculator, in its fields and in its message text
C9_Step ==
    /\ \A i \in DOMAIN objs : i \in DOMAIN objs' /\ objs'[i] = objs[i]
    /\ \A k \in DOMAIN infos : k \in DOMAIN infos' /\ infos'[k] = infos[k]
    /\ \A l \in DOMAIN infos' \ DOMAIN infos : \A k \in DOMAIN infos :
        objs'[infos'[k].obj] = objs'[infos'[l].obj] =>
            /\ infos'[k].info = infos'[l].info
            /\ get_message(infos'[k].info) = get_message(infos'[l].info)

====
